---- MODULE Spec2Model ----
(***************************************************************************)
(* Collective-memory layer of MultiLLMCollectiveMemory: the No-Op, Shared  *)
(* and Private memory systems and the domain router, as a state machine.   *)
(*                                                                         *)
(* Text is a sequence of one-character strings, so that str.lower() and    *)
(* the substring test `a in b` are computed, not assumed.  A Python dict   *)
(* (and the JSON object it is saved as) is a sequence of <<key, value>>    *)
(* pairs in insertion order.  importance_score is counted in hundredths.  *)
(***************************************************************************)
EXTENDS Integers, Sequences, FiniteSets, TLC

VARIABLES
    config,      \* which memory system the run constructed
    now,         \* the clock: number of datetime.now() calls so far
    noLog,       \* NoMemorySystem.access_log
    shData,      \* SharedMemorySystem: the JSON file (id -> record)
    shLog,       \* SharedMemorySystem.access_log
    pvData,      \* PrivateMemorySystem per owner: the JSON file
    pvLog,       \* PrivateMemorySystem per owner: access_log
    dmData,      \* DomainSpecificMemory: JSON file of each domain's store
    dmLog,       \* DomainSpecificMemory: access_log of each domain's store
    dmCreated,   \* DomainSpecificMemory.domain_memories (domains created)
    call,        \* the last call made
    ret,         \* what the last call returned
    threads,     \* concurrent store calls on one Shared Store: each
                 \* thread's position and the data it loaded
    shTorn,      \* the Shared Store's file is truncated or half written
    agent_memories,  \* PrivateMemoryManager.agent_memories
    bundle,      \* MemoryFederation: the last export file written
    collection,  \* SharedMemorySystem.collection: None or a collection
    index,       \* the ids held by the collection on the ChromaDB server
    raised       \* store calls that ended in an exception of the collection

thrVars == <<threads, shTorn>>

chromaVars == <<collection, index, raised>>

vars == <<config, now, noLog, shData, shLog, pvData, pvLog,
          dmData, dmLog, dmCreated, call, ret, thrVars, agent_memories,
          bundle, chromaVars>>

----------------------------------------------------------------------------
(* Bounds *)

\* access-log records written in one run, over all stores
MaxLog == 2

----------------------------------------------------------------------------
(* Text *)

SortList == <<"S", "o", "r", "t", " ", "l", "i", "s", "t">>
SortText == <<"s", "o", "r", "t", " ", "t", "e", "x", "t">>
Note == <<"n", "o", "t", "e">>
Algo == <<"a", "l", "g", "o">>
SortTag == <<"S", "o", "r", "t">>
QSort == <<"s", "o", "r", "t">>
QAlgoTips == <<"a", "l", "g", "o", " ", "t", "i", "p", "s">>
QAlg == <<"a", "l", "g">>

\* the lower-case letter of each upper-case letter
UpperToLower ==
    ("A" :> "a") @@ ("B" :> "b") @@ ("C" :> "c") @@ ("D" :> "d")
    @@ ("E" :> "e") @@ ("F" :> "f") @@ ("G" :> "g") @@ ("H" :>
    "h") @@ ("I" :> "i") @@ ("J" :> "j") @@ ("K" :> "k") @@ ("L"
    :> "l") @@ ("M" :> "m") @@ ("N" :> "n") @@ ("O" :> "o") @@
    ("P" :> "p") @@ ("Q" :> "q") @@ ("R" :> "r") @@ ("S" :> "s")
    @@ ("T" :> "t") @@ ("U" :> "u") @@ ("V" :> "v") @@ ("W" :>
    "w") @@ ("X" :> "x") @@ ("Y" :> "y") @@ ("Z" :> "z")

\* str.lower(), one character
LowerChar(c) == IF c \in DOMAIN UpperToLower THEN UpperToLower[c] ELSE c

\* str.lower()
Lower(s) == SubSeq([i \in 1..Len(s) |-> LowerChar(s[i])], 1, Len(s))

\* Python's `a in b` on strings
In(a, b) ==
    \E i \in 0..(Len(b) - Len(a)) : SubSeq(b, i + 1, i + Len(a)) = a

\* the slice left out
TakeAll(s, n) == s

\* Python's seq[:n] for n >= 0
Take(s, n) == SubSeq(s, 1, IF n < Len(s) THEN n ELSE Len(s))

----------------------------------------------------------------------------
(* dict / JSON object: <<key, value>> pairs in insertion order *)

EmptyDict == << >>

Keys(d) == [i \in 1..Len(d) |-> d[i][1]]

Values(d) == [i \in 1..Len(d) |-> d[i][2]]

Has(d, k) == \E i \in 1..Len(d) : d[i][1] = k

Get(d, k) == d[CHOOSE i \in 1..Len(d) : d[i][1] = k][2]

\* d[k] = v: an existing key keeps its position, a new key goes last
Put(d, k, v) ==
    IF Has(d, k)
    THEN [i \in 1..Len(d) |-> IF d[i][1] = k THEN <<k, v>> ELSE d[i]]
    ELSE Append(d, <<k, v>>)

\* a del that removes nothing
DelNothing(d, k) == d

\* del d[k]
Del(d, k) == SelectSeq(d, LAMBDA p : p[1] # k)

\* list.sort(key=..., reverse=True): stable, descending.  less[i, j] is
\* key(s[i]) < key(s[j]).  An element is preceded by those with a greater
\* key and by the earlier elements with an equal key.
SortDesc(s, less) ==
    LET Before(i) ==
            Cardinality({j \in 1..Len(s) :
                \/ less[i, j]
                \/ (~less[j, i] /\ j < i)})
    IN  [p \in 1..Len(s) |-> s[CHOOSE i \in 1..Len(s) : Before(i) = p - 1]]

----------------------------------------------------------------------------
(* datetime *)

\* isoformat(timespec="seconds"): the fraction always left out
IsoFormatSeconds(t) == <<t.s>>

\* datetime.isoformat(): the fraction is left out when microsecond is 0
IsoFormat(t) == IF t.us = 0 THEN <<t.s>> ELSE <<t.s, t.us>>

\* datetime.fromisoformat()
FromIsoFormat(x) == [s |-> x[1], us |-> IF Len(x) = 1 THEN 0 ELSE x[2]]

\* t1 < t2 on datetimes
DateLess(t1, t2) == t1.s < t2.s \/ (t1.s = t2.s /\ t1.us < t2.us)

\* the value datetime.now() returns on its k-th call from here
Now(k) == [s |-> now + k, us |-> 1]

----------------------------------------------------------------------------
(* MemoryEntry and the record stored for it *)

Owner == "qa_engineer"
Other == "engineer"
Agents == {Owner, Other}

MemoryEntry(id, content, metadata, timestamp, agent_id, tags, importance) ==
    [id |-> id, content |-> content, metadata |-> metadata,
     timestamp |-> timestamp, agent_id |-> agent_id, tags |-> tags,
     importance_score |-> importance]

\* the dict written under data[entry.id] by store
EntryRecord(e) ==
    [content |-> e.content, metadata |-> e.metadata,
     timestamp |-> IsoFormat(e.timestamp), agent_id |-> e.agent_id,
     tags |-> e.tags, importance_score |-> e.importance_score]

\* the MemoryEntry built from a stored record by retrieve
EntryOf(id, r) ==
    MemoryEntry(id, r.content, r.metadata, FromIsoFormat(r.timestamp),
                r.agent_id, r.tags, r.importance_score)

\* log_access: the record appended to access_log, stamped by the k-th
\* datetime.now() of the call
LogRecord(k, operation, agent_id, details) ==
    [timestamp |-> Now(k), operation |-> operation, agent_id |-> agent_id,
     details |-> details]

\* a loop that assigns nothing
ApplyUpdatesNone(r, updates) == r

\* the loop of update: keys of `updates` that the record has are assigned
ApplyUpdates(r, updates) ==
    [k \in DOMAIN r |-> IF Has(updates, k) THEN Get(updates, k) ELSE r[k]]

----------------------------------------------------------------------------
(* Inputs *)

Id1 == <<"e", "1">>
Id2 == <<"e", "2">>
Id9 == <<"e", "9">>
Ids == {Id1, Id9}

\* the characters of an agent id
AgentText(a) ==
    IF a = "qa_engineer"
    THEN <<"q", "a", "_", "e", "n", "g", "i", "n", "e", "e", "r">>
    ELSE <<"e", "n", "g", "i", "n", "e", "e", "r">>

\* uuid.uuid4().hex[:8], cut to two characters
Uuids == {<<"a", "1">>, <<"b", "2">>}

\* the entry_ids lists given to share_knowledge
IdLists == {<<Id1>>, <<Id9>>, <<Id9, Id2>>, <<Id1, Id2>>}

E1 == MemoryEntry(Id1, SortList, EmptyDict, [s |-> 0, us |-> 0],
                  Owner, <<Algo>>, 50)
E2 == MemoryEntry(Id2, SortText, <<<<"topic", Algo>>>>, [s |-> 0, us |-> 7],
                  Owner, << >>, 50)
E4 == MemoryEntry(Id2, Note, EmptyDict, [s |-> 0, us |-> 3], Other,
                  <<SortTag>>, 100)
E3 == MemoryEntry(Id1, Note, EmptyDict, [s |-> 0, us |-> 3],
                  Other, <<SortTag>>, 100)
\* the entries and the query of the binary-search scenario
HashTables ==
    <<"u", "s", "e", " ", "h", "a", "s", "h", " ", "t", "a", "b",
      "l", "e", "s", " ", "f", "o", "r", " ", "O", "(", "1", ")",
      " ", "l", "o", "o", "k", "u", "p">>
BinarySearch ==
    <<"b", "i", "n", "a", "r", "y", " ", "s", "e", "a", "r", "c",
      "h", " ", "o", "n", " ", "s", "o", "r", "t", "e", "d", " ",
      "a", "r", "r", "a", "y", "s">>
ValidateInput ==
    <<"v", "a", "l", "i", "d", "a", "t", "e", " ", "i", "n", "p",
      "u", "t", " ", "b", "e", "f", "o", "r", "e", " ", "p", "r",
      "o", "c", "e", "s", "s", "i", "n", "g">>
QBinary ==
    <<"b", "i", "n", "a", "r", "y", " ", "s", "e", "a", "r", "c",
      "h", " ", "i", "m", "p", "l", "e", "m", "e", "n", "t", "a",
      "t", "i", "o", "n">>
TagDataStructures ==
    <<"d", "a", "t", "a", "_", "s", "t", "r", "u", "c", "t", "u",
      "r", "e", "s">>
TagAlgorithms ==
    <<"a", "l", "g", "o", "r", "i", "t", "h", "m", "s">>
TagValidation ==
    <<"v", "a", "l", "i", "d", "a", "t", "i", "o", "n">>
IdH == <<"h">>
IdB == <<"b">>
IdV == <<"v">>
EH == MemoryEntry(IdH, HashTables, EmptyDict, [s |-> 0, us |-> 1], Owner,
                  <<TagDataStructures>>, 50)
EB == MemoryEntry(IdB, BinarySearch, EmptyDict, [s |-> 0, us |-> 2], Owner,
                  <<TagAlgorithms>>, 50)
EV == MemoryEntry(IdV, ValidateInput, EmptyDict, [s |-> 0, us |-> 3], Owner,
                  <<TagValidation>>, 50)

Entries == {E1, E2, E3}

Queries == {QSort, QAlgoTips, QAlg}
Limits == {0, 1, 2}

UpdateMaps ==
    { <<<<"content", Note>>>>,
      <<<<"agent_id", Other>>>>,
      <<<<"importance_score", 100>>, <<"reviewed", TRUE>>>> }

Ok(b) == [ok |-> b, out |-> << >>]

----------------------------------------------------------------------------
(* SharedMemorySystem with no similarity backend (collection is None),     *)
(* as functions of the JSON file and the log, so that the domain router    *)
(* can use them for each of its stores.                                    *)

SharedStoreData(data, e) == Put(data, e.id, EntryRecord(e))

\* k: which datetime.now() of the call stamps the record
SharedStoreLog(log, k, e) ==
    Append(log, LogRecord(k, "store", e.agent_id,
                          [entry_id |-> e.id, content_length |-> Len(e.content),
                           tags |-> e.tags]))

\* the test of the keyword fallback
SharedMatch(r, q) ==
    \/ In(Lower(q), Lower(r.content))
    \/ \E i \in 1..Len(r.tags) : In(Lower(r.tags[i]), Lower(q))

\* the comparison of an ascending sort
ImportanceGreater(a, b) == a.importance_score > b.importance_score

ImportanceLess(a, b) == a.importance_score < b.importance_score

SharedRetrieve(data, q, lim) ==
    LET hits == SelectSeq(data, LAMBDA p : SharedMatch(p[2], q))
        results == [i \in 1..Len(hits) |-> EntryOf(hits[i][1], hits[i][2])]
        less == [i \in 1..Len(results), j \in 1..Len(results) |->
                    ImportanceLess(results[i], results[j])]
    IN  Take(SortDesc(results, less), lim)

\* a flag that is never set
CrossAgentNever(results, a) == FALSE

CrossAgent(results, a) ==
    \E i \in 1..Len(results) : results[i].agent_id # a

SharedRetrieveLog(log, k, q, a, lim, results) ==
    Append(log, LogRecord(k, "retrieve", a,
                          [query |-> q, results_found |-> Len(results),
                           cross_agent_access |-> CrossAgent(results, a),
                           limit |-> lim]))

SharedUpdateData(data, id, u) ==
    Put(data, id,
        [ApplyUpdates(Get(data, id), u) EXCEPT !.timestamp = IsoFormat(Now(1))])

SharedUpdateLog(log, data, id, u) ==
    Append(log, LogRecord(2, "update",
                          Get(SharedUpdateData(data, id, u), id).agent_id,
                          [entry_id |-> id, updates |-> Keys(u)]))

SharedDeleteLog(log, data, id) ==
    Append(log, LogRecord(1, "delete", Get(data, id).agent_id,
                          [entry_id |-> id]))

----------------------------------------------------------------------------
(* PrivateMemorySystem, as functions of the JSON file *)

\* the gate left out
PrivateStoreAllowedAll(o, e) == TRUE

\* store: only the owning agent can store
PrivateStoreAllowed(o, e) == e.agent_id = o

\* the gate left out
PrivateRetrieveAllowedAll(o, a) == TRUE

\* retrieve: only the owning agent can access
PrivateRetrieveAllowed(o, a) == a = o

\* update, delete: only entries of the owning agent
PrivateOwns(o, r) == r.agent_id = o

PrivateMatch(r, q) ==
    \/ In(Lower(q), Lower(r.content))
    \/ \E i \in 1..Len(r.tags) : In(Lower(r.tags[i]), Lower(q))
    \/ \E i \in 1..Len(r.metadata) : In(Lower(q), Lower(r.metadata[i][2]))

\* the sort key (importance_score, timestamp)
PrivateLess(a, b) ==
    \/ a.importance_score < b.importance_score
    \/ /\ a.importance_score = b.importance_score
       /\ DateLess(a.timestamp, b.timestamp)

PrivateRetrieve(data, q, lim) ==
    LET hits == SelectSeq(data, LAMBDA p : PrivateMatch(p[2], q))
        results == [i \in 1..Len(hits) |-> EntryOf(hits[i][1], hits[i][2])]
        less == [i \in 1..Len(results), j \in 1..Len(results) |->
                    PrivateLess(results[i], results[j])]
    IN  Take(SortDesc(results, less), lim)

\* f"shared_{uuid.uuid4().hex[:8]}_{entry_id}"
SharedId(uuid, id) ==
    <<"s", "h", "a", "r", "e", "d", "_">> \o uuid \o <<"_">> \o id

\* f"[SHARED FROM {self.agent_id}] {content}"
SharedContent(src, content) ==
    <<"[", "S", "H", "A", "R", "E", "D", " ", "F", "R", "O", "M", " ">>
        \o AgentText(src) \o <<"]", " ">> \o content

\* a copy that keeps the id, the content, the owner, the tags and the score
SharedEntryPlain(src, tgt, uuid, id, r, k) == EntryOf(id, r)

\* the entry share_knowledge builds from the record r stored under id;
\* k: which datetime.now() of the call stamps it
SharedEntry(src, tgt, uuid, id, r, k) ==
    MemoryEntry(SharedId(uuid, id),
                SharedContent(src, r.content),
                Put(Put(r.metadata, "shared_from", AgentText(src)),
                    "original_id", id),
                Now(k), tgt,
                Append(r.tags, <<"s", "h", "a", "r", "e", "d", "_", "k", "n",
                                 "o", "w", "l", "e", "d", "g", "e">>),
                (r.importance_score * 8) \div 10)

\* The loop of share_knowledge over entry_ids[i..]: the target's file and
\* log, and shared_count.  An id found in the source costs two
\* datetime.now() calls: the entry's timestamp and the target's log record.
RECURSIVE ShareLoop(_, _, _, _, _, _, _)
ShareLoop(src, tgt, data, ids, uuids, i, acc) ==
    IF i > Len(ids) THEN acc
    ELSE IF ~Has(data, ids[i])
         THEN ShareLoop(src, tgt, data, ids, uuids, i + 1, acc)
         ELSE LET e == SharedEntry(src, tgt, uuids[i], ids[i],
                                   Get(data, ids[i]), 2 * acc.count + 1)
              IN  ShareLoop(src, tgt, data, ids, uuids, i + 1,
                      [data |-> SharedStoreData(acc.data, e),
                       log |-> SharedStoreLog(acc.log, 2 * acc.count + 2, e),
                       count |-> acc.count + 1])

\* how many of ids the file holds
Found(data, ids) == Cardinality({i \in 1..Len(ids) : Has(data, ids[i])})

----------------------------------------------------------------------------
(* DomainSpecificMemory: classification *)

DomainOrder ==
    <<"algorithms", "data_structures", "string_processing", "mathematics",
      "validation", "optimization">>

Domains == {DomainOrder[i] : i \in 1..Len(DomainOrder)} \cup {"general"}

domain_patterns(d) ==
    CASE d = "algorithms" -> <<
         <<"s", "o", "r", "t">>,
         <<"s", "e", "a", "r", "c", "h">>,
         <<"t", "r", "e", "e">>,
         <<"g", "r", "a", "p", "h">>,
         <<"d", "y", "n", "a", "m", "i", "c", " ", "p", "r", "o", "g", "r", "a", "m", "m", "i", "n", "g">>,
         <<"r", "e", "c", "u", "r", "s", "i", "o", "n">> >>
      [] d = "data_structures" -> <<
         <<"l", "i", "s", "t">>,
         <<"d", "i", "c", "t">>,
         <<"a", "r", "r", "a", "y">>,
         <<"s", "t", "a", "c", "k">>,
         <<"q", "u", "e", "u", "e">>,
         <<"h", "e", "a", "p">> >>
      [] d = "string_processing" -> <<
         <<"s", "t", "r", "i", "n", "g">>,
         <<"t", "e", "x", "t">>,
         <<"p", "a", "r", "s", "e">>,
         <<"r", "e", "g", "e", "x">>,
         <<"f", "o", "r", "m", "a", "t">> >>
      [] d = "mathematics" -> <<
         <<"m", "a", "t", "h">>,
         <<"c", "a", "l", "c", "u", "l", "a", "t", "i", "o", "n">>,
         <<"f", "o", "r", "m", "u", "l", "a">>,
         <<"n", "u", "m", "b", "e", "r">>,
         <<"f", "a", "c", "t", "o", "r", "i", "a", "l">>,
         <<"p", "r", "i", "m", "e">> >>
      [] d = "validation" -> <<
         <<"v", "a", "l", "i", "d", "a", "t", "e">>,
         <<"c", "h", "e", "c", "k">>,
         <<"v", "e", "r", "i", "f", "y">>,
         <<"t", "e", "s", "t">>,
         <<"a", "s", "s", "e", "r", "t">>,
         <<"e", "r", "r", "o", "r">> >>
      [] d = "optimization" -> <<
         <<"o", "p", "t", "i", "m", "i", "z", "e">>,
         <<"e", "f", "f", "i", "c", "i", "e", "n", "t">>,
         <<"p", "e", "r", "f", "o", "r", "m", "a", "n", "c", "e">>,
         <<"s", "p", "e", "e", "d">>,
         <<"m", "e", "m", "o", "r", "y", " ", "u", "s", "a", "g", "e">> >>

\* sum(1 for pattern in patterns if pattern in content_lower)
DomainScore(d, content) ==
    LET content_lower == Lower(content)
        patterns == domain_patterns(d)
    IN  Cardinality({i \in 1..Len(patterns) : In(patterns[i], content_lower)})

\* the first domain that scores at all
classify_first_scored(content) ==
    LET scored == {i \in 1..Len(DomainOrder) :
                      DomainScore(DomainOrder[i], content) > 0}
    IN  IF scored = {} THEN "general"
        ELSE DomainOrder[CHOOSE i \in scored : \A j \in scored : i <= j]

\* max() over the scored domains keeps the first of the greatest
classify_domain(content) ==
    LET domain_scores == [i \in 1..Len(DomainOrder) |->
                             DomainScore(DomainOrder[i], content)]
        scored == {i \in 1..Len(DomainOrder) : domain_scores[i] > 0}
    IN  IF scored = {} THEN "general"
        ELSE DomainOrder[CHOOSE i \in scored :
                \A j \in scored :
                    \/ domain_scores[j] < domain_scores[i]
                    \/ /\ domain_scores[j] = domain_scores[i]
                       /\ i <= j]

\* a retrieve_domain_insights that asks the query's domain only
DomainRetrievePrimary(files, q, lim) ==
    SharedRetrieve(files[classify_domain(q)], q, lim)

\* retrieve_domain_insights: what it returns, given the domains' files
DomainRetrieve(files, q, lim) ==
    LET query_domain == classify_domain(q)
        primary == SharedRetrieve(files[query_domain], q, lim)
        general == IF query_domain # "general"
                   THEN SharedRetrieve(files["general"], q, lim \div 2)
                   ELSE << >>
    IN  Take(primary \o general, lim)

----------------------------------------------------------------------------
(* The run *)

RECURSIVE SumLen(_, _)
SumLen(logs, S) ==
    IF S = {} THEN 0
    ELSE LET x == CHOOSE x \in S : TRUE
         IN  Len(logs[x]) + SumLen(logs, S \ {x})

\* access-log records written so far, and calls that raised instead
Logged ==
    CASE config = "none" -> Len(noLog)
      [] config \in {"shared", "threads"} -> Len(shLog) + raised
      [] config = "private" -> SumLen(pvLog, Agents)
      [] config \in {"domain", "federation"} -> SumLen(dmLog, Domains)
      [] config \in {"manager", "filter"} -> 0

\* the JSON file left by earlier store calls
RECURSIVE Stored(_)
Stored(es) ==
    IF es = << >> THEN EmptyDict
    ELSE SharedStoreData(Stored(SubSeq(es, 1, Len(es) - 1)), es[Len(es)])

NoFiles == [d \in Domains |-> EmptyDict]

\* the domains' files left by earlier store_domain_insight calls
RECURSIVE DomainStored(_)
DomainStored(es) ==
    IF es = << >> THEN NoFiles
    ELSE LET e == es[Len(es)]
         IN  [DomainStored(SubSeq(es, 1, Len(es) - 1))
                 EXCEPT ![classify_domain(e.content)] = SharedStoreData(@, e)]

\* queries and limits of retrieve_domain_insights
DomainQueries == Queries \cup {QBinary}

\* an insight with two keywords of a later domain and one of an earlier
ListDictSort ==
    <<"L", "i", "s", "t", " ", "d", "i", "c", "t", " ", "s", "o", "r", "t">>
E5 == MemoryEntry(Id2, ListDictSort, EmptyDict, [s |-> 0, us |-> 5], Owner,
                  << >>, 50)
DomainEntries == Entries \cup {E5}
DomainLimits == Limits \cup {5}

\* no export file has been written
NoBundle == [written |-> FALSE]

Init ==
    /\ config \in {"none", "shared", "private", "domain", "threads",
                   "manager", "federation", "filter"}
    /\ agent_memories = EmptyDict
    /\ bundle = NoBundle
    /\ threads = [t \in Agents |-> [pc |-> "idle", data |-> EmptyDict,
                                    overlapped |-> FALSE]]
    /\ shTorn = FALSE
    /\ now = 0
    /\ noLog = << >>
    /\ shLog = << >>
    /\ pvLog = [o \in Agents |-> << >>]
    /\ dmLog = [d \in Domains |-> << >>]
    /\ dmCreated = {}
    /\ call = [op |-> "init"]
    /\ ret = Ok(TRUE)
    /\ collection \in IF config = "shared" THEN {"None", "Collection"}
                      ELSE {"None"}
    /\ shData \in IF config = "shared"
                  THEN IF collection = "None"
                       THEN {EmptyDict, Stored(<<E1, E2>>), Stored(<<E2, E3>>)}
                       ELSE {Stored(<<E1, E2>>)}
                  ELSE {EmptyDict}
    /\ index = IF collection = "None" THEN {}
               ELSE {shData[i][1] : i \in 1..Len(shData)}
    /\ raised = 0
    /\ pvData \in IF config = "private"
                  THEN {[o \in Agents |-> EmptyDict],
                        [o \in Agents |->
                            IF o = Owner THEN Stored(<<E1, E2>>)
                            ELSE Stored(<<E3>>)]}
                  ELSE {[o \in Agents |-> EmptyDict]}
    /\ dmData \in IF config = "domain"
                  THEN {NoFiles,
                        [NoFiles EXCEPT !["algorithms"] = Stored(<<E1, E2>>),
                                        !["general"] = Stored(<<E3>>)],
                        DomainStored(<<E3>>),
                        DomainStored(<<EH, EB, EV>>)}
                  ELSE {NoFiles}

----------------------------------------------------------------------------
(* NoMemorySystem *)

\* a retrieve that answers with an entry made of the query
NoRetrieveEcho(q) ==
    <<MemoryEntry(Id9, q, EmptyDict, Now(1), "none", << >>, 0)>>

\* retrieve: always return empty
NoRetrieveOut(q) == << >>

NoStore(e) ==
    /\ config = "none"
    /\ Logged < MaxLog
    /\ noLog' = Append(noLog,
                    LogRecord(1, "store_attempted", e.agent_id,
                              [entry_id |-> e.id]))
    /\ now' = now + 1
    /\ call' = [op |-> "store", entry |-> e]
    /\ ret' = Ok(TRUE)
    /\ UNCHANGED <<thrVars, agent_memories, bundle, chromaVars>>
    /\ UNCHANGED <<config, shData, shLog, pvData, pvLog, dmData, dmLog,
                   dmCreated>>

NoRetrieve(q, a, lim) ==
    /\ config = "none"
    /\ Logged < MaxLog
    /\ noLog' = Append(noLog,
                    LogRecord(1, "retrieve", a, [query |-> q, limit |-> lim]))
    /\ now' = now + 1
    /\ call' = [op |-> "retrieve", query |-> q, agent_id |-> a, limit |-> lim]
    /\ ret' = [ok |-> TRUE, out |-> NoRetrieveOut(q)]
    /\ UNCHANGED <<thrVars, agent_memories, bundle, chromaVars>>
    /\ UNCHANGED <<config, shData, shLog, pvData, pvLog, dmData, dmLog,
                   dmCreated>>

NoUpdate(id, u) ==
    /\ config = "none"
    /\ call' = [op |-> "update", entry_id |-> id]
    /\ ret' = Ok(TRUE)
    /\ UNCHANGED <<thrVars, agent_memories, bundle, chromaVars>>
    /\ UNCHANGED <<config, now, noLog, shData, shLog, pvData, pvLog, dmData,
                   dmLog, dmCreated>>

NoDelete(id) ==
    /\ config = "none"
    /\ call' = [op |-> "delete", entry_id |-> id]
    /\ ret' = Ok(TRUE)
    /\ UNCHANGED <<thrVars, agent_memories, bundle, chromaVars>>
    /\ UNCHANGED <<config, now, noLog, shData, shLog, pvData, pvLog, dmData,
                   dmLog, dmCreated>>

----------------------------------------------------------------------------
(* SharedMemorySystem *)

\* the ids a query of the collection may answer with: the n_results
\* nearest of the ids it holds (all of them when it holds fewer), in an
\* order the embedding decides
QueryIds(ids, n_results) ==
    LET n == IF n_results < Cardinality(ids) THEN n_results
             ELSE Cardinality(ids)
    IN  {s \in [1..n -> ids] : \A i, j \in 1..n : i # j => s[i] # s[j]}

\* the entries of the ids found in the file; ids not in it are skipped
Resolve(data, ids) ==
    LET found == SelectSeq(ids, LAMBDA id : Has(data, id))
    IN  [i \in 1..Len(found) |-> EntryOf(found[i], Get(data, found[i]))]

\* a call of the collection succeeds or raises
ChromaOutcomes == {"ok", "raises"}

\* store with no collection: the file is written and the call logged
SharedStoreFallback(e) ==
    /\ collection = "None"
    /\ Logged < MaxLog
    /\ shData' = SharedStoreData(shData, e)
    /\ shLog' = SharedStoreLog(shLog, 1, e)
    /\ now' = now + 1
    /\ ret' = Ok(TRUE)
    /\ UNCHANGED chromaVars

\* store with a collection: the file is written, then collection.add
\* either succeeds or raises, and a raise makes store return False
SharedStoreChroma(e, outcome) ==
    /\ collection # "None"
    /\ Logged < MaxLog
    /\ shData' = SharedStoreData(shData, e)
    /\ IF outcome = "ok"
       THEN /\ index' = index \cup {e.id}
            /\ shLog' = SharedStoreLog(shLog, 1, e)
            /\ now' = now + 1
            /\ ret' = Ok(TRUE)
            /\ UNCHANGED raised
       ELSE /\ raised' = raised + 1
            /\ ret' = Ok(FALSE)
            /\ UNCHANGED <<index, shLog, now>>
    /\ UNCHANGED collection

SharedStore(e) ==
    /\ config = "shared"
    /\ \/ SharedStoreFallback(e)
       \/ \E outcome \in ChromaOutcomes : SharedStoreChroma(e, outcome)
    /\ call' = [op |-> "store", entry |-> e]
    /\ UNCHANGED <<thrVars, agent_memories, bundle>>
    /\ UNCHANGED <<config, noLog, pvData, pvLog, dmData, dmLog, dmCreated>>

\* the record of a retrieve whose collection.query raised
SharedRetrieveErrorLog(log, k, q, a) ==
    Append(log, LogRecord(k, "retrieve_error", a,
                          [query |-> q, error |-> "error"]))

\* what retrieve returns and logs: with no collection the keyword
\* fallback; with one, the entries of the ids collection.query answered
\* with, or [] when it raised
SharedRetrieveResults(q, a, lim) ==
    IF collection = "None"
    THEN {[results |-> SharedRetrieve(shData, q, lim), raised |-> FALSE]}
    ELSE {[results |-> Resolve(shData, ids), raised |-> FALSE] :
             ids \in QueryIds(index, lim)}
         \cup {[results |-> << >>, raised |-> TRUE]}

SharedRetrieveCall(q, a, lim) ==
    /\ config = "shared"
    /\ Logged < MaxLog
    /\ \E r \in SharedRetrieveResults(q, a, lim) :
          /\ shLog' = IF r.raised
                      THEN SharedRetrieveErrorLog(shLog, 1, q, a)
                      ELSE SharedRetrieveLog(shLog, 1, q, a, lim, r.results)
          /\ ret' = [ok |-> TRUE, out |-> r.results]
    /\ now' = now + 1
    /\ call' = [op |-> "retrieve", query |-> q, agent_id |-> a, limit |-> lim]
    /\ UNCHANGED <<thrVars, agent_memories, bundle, chromaVars>>
    /\ UNCHANGED <<config, noLog, shData, pvData, pvLog, dmData, dmLog,
                   dmCreated>>

SharedUpdate(id, u) ==
    /\ config = "shared"
    /\ IF ~Has(shData, id)
       THEN /\ call' = [op |-> "update", entry_id |-> id]
            /\ ret' = Ok(FALSE)
            /\ UNCHANGED <<shData, shLog, now>>
       ELSE /\ Logged < MaxLog
            /\ call' = [op |-> "update", entry_id |-> id, updates |-> u]
            /\ shData' = SharedUpdateData(shData, id, u)
            /\ shLog' = SharedUpdateLog(shLog, shData, id, u)
            /\ now' = now + 2
            /\ ret' = Ok(TRUE)
    /\ UNCHANGED <<thrVars, agent_memories, bundle, chromaVars>>
    /\ UNCHANGED <<config, noLog, pvData, pvLog, dmData, dmLog, dmCreated>>

\* a delete that tolerates a missing id, as dict.pop(id, None) would
SharedDeleteLenient(id) ==
    /\ config = "shared"
    /\ Logged < MaxLog
    /\ call' = [op |-> "delete", entry_id |-> id]
    /\ shData' = Del(shData, id)
    /\ shLog' = Append(shLog, LogRecord(1, "delete", "unknown",
                                        [entry_id |-> id]))
    /\ now' = now + 1
    /\ ret' = Ok(TRUE)
    /\ UNCHANGED <<thrVars, agent_memories, bundle, chromaVars>>
    /\ UNCHANGED <<config, noLog, pvData, pvLog, dmData, dmLog, dmCreated>>

\* the ids the collection holds after delete: collection.delete removes
\* the id, or raises and is passed over with a warning
IndexAfterDelete(id) ==
    IF collection = "None" THEN {index} ELSE {index \ {id}, index}

SharedDelete(id) ==
    /\ config = "shared"
    /\ call' = [op |-> "delete", entry_id |-> id]
    /\ IF ~Has(shData, id)
       THEN /\ ret' = Ok(FALSE)
            /\ UNCHANGED <<shData, shLog, now, index>>
       ELSE /\ Logged < MaxLog
            /\ shData' = Del(shData, id)
            /\ index' \in IndexAfterDelete(id)
            /\ shLog' = SharedDeleteLog(shLog, shData, id)
            /\ now' = now + 1
            /\ ret' = Ok(TRUE)
    /\ UNCHANGED <<thrVars, agent_memories, bundle, collection, raised>>
    /\ UNCHANGED <<config, noLog, pvData, pvLog, dmData, dmLog, dmCreated>>

----------------------------------------------------------------------------
(* PrivateMemorySystem of owner o *)

PrivateStore(o, e) ==
    /\ config = "private"
    /\ Logged < MaxLog
    /\ call' = [op |-> "store", owner |-> o, entry |-> e]
    /\ now' = now + 1
    /\ IF ~PrivateStoreAllowed(o, e)
       THEN /\ pvLog' = [pvLog EXCEPT ![o] = Append(@,
                            LogRecord(1, "store_denied", e.agent_id,
                                [entry_id |-> e.id,
                                 reason |-> "cross_agent_access_denied"]))]
            /\ ret' = Ok(FALSE)
            /\ UNCHANGED pvData
       ELSE /\ pvData' = [pvData EXCEPT ![o] = SharedStoreData(@, e)]
            /\ pvLog' = [pvLog EXCEPT ![o] = SharedStoreLog(@, 1, e)]
            /\ ret' = Ok(TRUE)
    /\ UNCHANGED <<thrVars, agent_memories, bundle, chromaVars>>
    /\ UNCHANGED <<config, noLog, shData, shLog, dmData, dmLog, dmCreated>>

PrivateRetrieveCall(o, q, a, lim) ==
    /\ config = "private"
    /\ Logged < MaxLog
    /\ call' = [op |-> "retrieve", owner |-> o, query |-> q, agent_id |-> a,
                limit |-> lim]
    /\ now' = now + 1
    /\ IF ~PrivateRetrieveAllowed(o, a)
       THEN /\ pvLog' = [pvLog EXCEPT ![o] = Append(@,
                            LogRecord(1, "retrieve_denied", a,
                                [query |-> q,
                                 reason |-> "cross_agent_access_denied"]))]
            /\ ret' = [ok |-> TRUE, out |-> << >>]
       ELSE LET results == PrivateRetrieve(pvData[o], q, lim)
            IN  /\ pvLog' = [pvLog EXCEPT ![o] = Append(@,
                                LogRecord(1, "retrieve", a,
                                    [query |-> q,
                                     results_found |-> Len(results),
                                     cross_agent_access |-> FALSE,
                                     limit |-> lim]))]
                /\ ret' = [ok |-> TRUE, out |-> results]
    /\ UNCHANGED <<thrVars, agent_memories, bundle, chromaVars>>
    /\ UNCHANGED <<config, noLog, shData, shLog, pvData, dmData, dmLog,
                   dmCreated>>

PrivateUpdate(o, id, u) ==
    /\ config = "private"
    /\ IF ~Has(pvData[o], id) \/ ~PrivateOwns(o, Get(pvData[o], id))
       THEN /\ call' = [op |-> "update", owner |-> o, entry_id |-> id]
            /\ ret' = Ok(FALSE)
            /\ UNCHANGED <<pvData, pvLog, now>>
       ELSE /\ Logged < MaxLog
            /\ call' = [op |-> "update", owner |-> o, entry_id |-> id,
                        updates |-> u]
            /\ pvData' = [pvData EXCEPT ![o] = SharedUpdateData(@, id, u)]
            /\ pvLog' = [pvLog EXCEPT ![o] = Append(@,
                            LogRecord(2, "update", o,
                                [entry_id |-> id, updates |-> Keys(u)]))]
            /\ now' = now + 2
            /\ ret' = Ok(TRUE)
    /\ UNCHANGED <<thrVars, agent_memories, bundle, chromaVars>>
    /\ UNCHANGED <<config, noLog, shData, shLog, dmData, dmLog, dmCreated>>

PrivateDelete(o, id) ==
    /\ config = "private"
    /\ call' = [op |-> "delete", owner |-> o, entry_id |-> id]
    /\ IF ~Has(pvData[o], id) \/ ~PrivateOwns(o, Get(pvData[o], id))
       THEN /\ ret' = Ok(FALSE)
            /\ UNCHANGED <<pvData, pvLog, now>>
       ELSE /\ Logged < MaxLog
            /\ pvData' = [pvData EXCEPT ![o] = Del(@, id)]
            /\ pvLog' = [pvLog EXCEPT ![o] = Append(@,
                            LogRecord(1, "delete", o, [entry_id |-> id]))]
            /\ now' = now + 1
            /\ ret' = Ok(TRUE)
    /\ UNCHANGED <<thrVars, agent_memories, bundle, chromaVars>>
    /\ UNCHANGED <<config, noLog, shData, shLog, dmData, dmLog, dmCreated>>

\* src's share_knowledge(ids, the store of tgt); uuids[i] is the uuid drawn
\* for ids[i]
ShareKnowledge(src, tgt, ids, uuids) ==
    /\ config = "private"
    /\ src # tgt
    /\ Logged + Found(pvData[src], ids) + 1 <= MaxLog
    /\ LET done == ShareLoop(src, tgt, pvData[src], ids, uuids, 1,
                        [data |-> pvData[tgt], log |-> pvLog[tgt],
                         count |-> 0])
       IN  /\ pvData' = [pvData EXCEPT ![tgt] = done.data]
           /\ pvLog' = [pvLog EXCEPT
                  ![tgt] = done.log,
                  ![src] = Append(@,
                      LogRecord(2 * done.count + 1, "share_knowledge", src,
                          [target_agent |-> tgt,
                           entries_shared |-> done.count,
                           total_requested |-> Len(ids)]))]
           /\ now' = now + 2 * done.count + 1
           /\ ret' = Ok(done.count > 0)
    /\ call' = [op |-> "share_knowledge", owner |-> src, target |-> tgt,
                entry_ids |-> ids]
    /\ UNCHANGED <<thrVars, agent_memories, bundle, chromaVars>>
    /\ UNCHANGED <<config, noLog, shData, shLog, dmData, dmLog, dmCreated>>

----------------------------------------------------------------------------
(* DomainSpecificMemory *)

\* the JSON file of the store get_domain_memory makes for a domain:
\* base_path / domain / shared_memory_domain_<domain>.json
DomainJsonFile(domain) ==
    <<"base_path", domain, "shared_memory_domain_", domain, ".json">>

\* a store_domain_insight that writes into the general store as well
StoreDomainInsightBoth(e) ==
    /\ config = "domain"
    /\ Logged < MaxLog
    /\ LET domain == classify_domain(e.content)
       IN  /\ dmCreated' = dmCreated \cup {domain, "general"}
           /\ dmData' = [d \in Domains |->
                            IF d \in {domain, "general"}
                            THEN SharedStoreData(dmData[d], e)
                            ELSE dmData[d]]
           /\ dmLog' = [dmLog EXCEPT ![domain] = SharedStoreLog(@, 1, e)]
           /\ call' = [op |-> "store_domain_insight", entry |-> e,
                       domain |-> domain]
    /\ now' = now + 1
    /\ ret' = Ok(TRUE)
    /\ UNCHANGED <<thrVars, agent_memories, bundle, chromaVars>>
    /\ UNCHANGED <<config, noLog, shData, shLog, pvData, pvLog>>

StoreDomainInsight(e) ==
    /\ config = "domain"
    /\ Logged < MaxLog
    /\ LET domain == classify_domain(e.content)
       IN  /\ dmCreated' = dmCreated \cup {domain}
           /\ dmData' = [dmData EXCEPT ![domain] = SharedStoreData(@, e)]
           /\ dmLog' = [dmLog EXCEPT ![domain] = SharedStoreLog(@, 1, e)]
           /\ call' = [op |-> "store_domain_insight", entry |-> e,
                       domain |-> domain]
    /\ now' = now + 1
    /\ ret' = Ok(TRUE)
    /\ UNCHANGED <<thrVars, agent_memories, bundle, chromaVars>>
    /\ UNCHANGED <<config, noLog, shData, shLog, pvData, pvLog>>

RetrieveDomainInsights(q, a, lim) ==
    /\ config = "domain"
    /\ Logged < MaxLog
    /\ LET query_domain == classify_domain(q)
           primary == SharedRetrieve(dmData[query_domain], q, lim)
           general == SharedRetrieve(dmData["general"], q, lim \div 2)
       IN  IF query_domain = "general"
           THEN /\ Logged < MaxLog
                /\ dmCreated' = dmCreated \cup {"general"}
                /\ dmLog' = [dmLog EXCEPT !["general"] =
                                SharedRetrieveLog(@, 1, q, a, lim, primary)]
                /\ now' = now + 1
                /\ ret' = [ok |-> TRUE, out |-> DomainRetrieve(dmData, q, lim)]
           ELSE /\ Logged + 2 <= MaxLog
                /\ dmCreated' = dmCreated \cup {query_domain, "general"}
                /\ dmLog' = [dmLog EXCEPT
                       ![query_domain] =
                           SharedRetrieveLog(@, 1, q, a, lim, primary),
                       !["general"] =
                           SharedRetrieveLog(@, 2, q, a, lim \div 2, general)]
                /\ now' = now + 2
                /\ ret' = [ok |-> TRUE, out |-> DomainRetrieve(dmData, q, lim)]
    /\ call' = [op |-> "retrieve_domain_insights", query |-> q,
                agent_id |-> a, limit |-> lim]
    /\ UNCHANGED <<thrVars, agent_memories, bundle, chromaVars>>
    /\ UNCHANGED <<config, noLog, shData, shLog, pvData, pvLog, dmData>>

----------------------------------------------------------------------------
(* Two agents' threads calling store on one SharedMemorySystem.  store is  *)
(* _load_json, then _save_json (open(..., 'w') truncates the file, then    *)
(* json.dump writes it), then log_access; nothing in it takes a lock, so   *)
(* the threads' steps interleave.                                          *)

\* the entry thread t stores
ThreadEntry(t) == IF t = Owner THEN E1 ELSE E4

\* store calls that have started and not yet logged
Running == Cardinality({t \in Agents : threads[t].pc \in {"loaded", "writing"}})

\* _load_json: a file that does not parse is read as {}
LoadJson == IF shTorn THEN EmptyDict ELSE shData

\* data = self._load_json()
StoreLoad(t) ==
    /\ config = "threads"
    /\ threads[t].pc = "idle"
    /\ Logged + Running < MaxLog
    /\ threads' = [threads EXCEPT ![t].pc = "loaded", ![t].data = LoadJson]
    /\ UNCHANGED <<config, now, noLog, shData, shLog, pvData, pvLog, dmData,
                   dmLog, dmCreated, call, ret, shTorn, agent_memories,
                   bundle, chromaVars>>

\* data[entry.id] = {...}; open(self.json_file, 'w')
StoreOpen(t) ==
    /\ config = "threads"
    /\ threads[t].pc = "loaded"
    /\ threads' = [threads EXCEPT
                      ![t].pc = "writing",
                      ![t].data = SharedStoreData(threads[t].data,
                                                  ThreadEntry(t))]
    /\ shData' = EmptyDict
    /\ shTorn' = TRUE
    /\ UNCHANGED <<config, now, noLog, shLog, pvData, pvLog, dmData,
                   dmLog, dmCreated, call, ret, agent_memories, bundle,
                   chromaVars>>

\* json.dump(data, f); log_access('store', ...); return True.  A thread
\* that has the file open while another writes it writes over the other's
\* text from offset 0: the file ends as this thread's text, or as a mix
\* that does not parse.
StoreDump(t) ==
    /\ config = "threads"
    /\ threads[t].pc = "writing"
    /\ threads' = [u \in Agents |->
                      IF u = t THEN [threads[u] EXCEPT !.pc = "done"]
                      ELSE IF threads[u].pc = "writing"
                      THEN [threads[u] EXCEPT !.overlapped = TRUE]
                      ELSE threads[u]]
    /\ shTorn' \in IF threads[t].overlapped THEN {FALSE, TRUE} ELSE {FALSE}
    /\ shData' = IF shTorn' THEN EmptyDict ELSE threads[t].data
    /\ shLog' = SharedStoreLog(shLog, 1, ThreadEntry(t))
    /\ now' = now + 1
    /\ UNCHANGED <<config, noLog, pvData, pvLog, dmData, dmLog, dmCreated,
                   call, ret, agent_memories, bundle, chromaVars>>

----------------------------------------------------------------------------
(* PrivateMemoryManager *)

\* PrivateMemorySystem(system_id, agent_id, storage_path): a new object
PrivateMemorySystem(obj, agent_id) == [obj |-> obj, agent_id |-> agent_id]

\* the objects constructed so far
Objects(memories) == {memories[i][2].obj : i \in 1..Len(memories)}

\* a manager that constructs a store on every call
GetAgentMemoryFresh(agent_id) ==
    /\ config = "manager"
    /\ Cardinality(Objects(agent_memories)) < 2
    /\ agent_memories' =
          Put(agent_memories, agent_id,
              PrivateMemorySystem(Len(agent_memories) + now + 1, agent_id))
    /\ now' = now + 1
    /\ call' = [op |-> "get_agent_memory", agent_id |-> agent_id]
    /\ ret' = [ok |-> TRUE, out |-> Get(agent_memories', agent_id)]
    /\ UNCHANGED <<config, noLog, shData, shLog, pvData, pvLog, dmData,
                   dmLog, dmCreated, thrVars, bundle, chromaVars>>

GetAgentMemory(agent_id) ==
    /\ config = "manager"
    /\ agent_memories' =
          IF ~Has(agent_memories, agent_id)
          THEN Put(agent_memories, agent_id,
                   PrivateMemorySystem(Len(agent_memories) + 1, agent_id))
          ELSE agent_memories
    /\ call' = [op |-> "get_agent_memory", agent_id |-> agent_id]
    /\ ret' = [ok |-> TRUE, out |-> Get(agent_memories', agent_id)]
    /\ UNCHANGED <<config, now, noLog, shData, shLog, pvData, pvLog, dmData,
                   dmLog, dmCreated, thrVars, bundle, chromaVars>>

----------------------------------------------------------------------------
(* MemoryFederation.  quality_score is counted in units of 1 / QualityOne  *)
(* and success_rate in hundredths.                                          *)

QualityOne == 200 * 1000 * 3 * 4

EnhancedMemoryEntry(e, domain, quality_score, success_rate) ==
    [id |-> e.id, content |-> e.content, metadata |-> e.metadata,
     timestamp |-> e.timestamp, agent_id |-> e.agent_id, tags |-> e.tags,
     importance_score |-> e.importance_score,
     domain |-> domain, quality_score |-> quality_score, usage_count |-> 0,
     success_rate |-> success_rate,
     context_similarity |-> [num |-> 0, den |-> 1],
     federation_source |-> "None"]

\* federation_config["quality_threshold"]: 0.7
quality_threshold == (7 * QualityOne) \div 10

\* insights offered for export: above, below and at the threshold
X1 == EnhancedMemoryEntry(E1, "algorithms", (8 * QualityOne) \div 10, 90)
X2 == EnhancedMemoryEntry(E2, "algorithms", (5 * QualityOne) \div 10, 50)
X3 == EnhancedMemoryEntry(E4, "validation", quality_threshold, 100)
ExportLists == {<< >>, <<X1>>, <<X2, X1>>, <<X3, X2, X1>>}
Organizations == {"org_a"}

\* the dict export_insights writes for an insight
ExportRecord(x) ==
    [content |-> x.content, domain |-> x.domain,
     quality_score |-> x.quality_score, success_rate |-> x.success_rate,
     tags |-> x.tags, metadata |-> x.metadata]

\* an export that writes every insight
ExportRecordsAll(insights) ==
    [i \in 1..Len(insights) |-> ExportRecord(insights[i])]

\* export_data["insights"]
ExportRecords(insights) ==
    LET kept == SelectSeq(insights,
                          LAMBDA x : x.quality_score >= quality_threshold)
    IN  [i \in 1..Len(kept) |-> ExportRecord(kept[i])]

ExportInsights(insights, organization_id) ==
    /\ config = "federation"
    /\ now < MaxLog
    /\ bundle' = [written |-> TRUE, parses |-> TRUE,
                  organization_id |-> organization_id,
                  timestamp |-> IsoFormat(Now(1)),
                  insights |-> ExportRecords(insights)]
    /\ now' = now + 1
    /\ call' = [op |-> "export_insights", insights |-> insights,
                organization_id |-> organization_id]
    /\ ret' = Ok(TRUE)
    /\ UNCHANGED <<config, noLog, shData, shLog, pvData, pvLog, dmData,
                   dmLog, dmCreated, thrVars, agent_memories, chromaVars>>

\* files that did not come from export_insights: one that is not JSON, one
\* whose second record has no "tags"
Unreadable == [written |-> TRUE, parses |-> FALSE]
GoodThenBad ==
    [written |-> TRUE, parses |-> TRUE, organization_id |-> "org_b",
     timestamp |-> IsoFormat([s |-> 0, us |-> 0]),
     insights |-> <<ExportRecord(X1),
                    [content |-> Note, domain |-> "general",
                     quality_score |-> QualityOne, success_rate |-> 100,
                     metadata |-> EmptyDict]>>]
ImportFiles ==
    {Unreadable, GoodThenBad} \cup (IF bundle.written THEN {bundle} ELSE {})

\* the keys import_insights reads from each record
RecordKeys ==
    {"content", "tags", "metadata", "domain", "quality_score", "success_rate"}

\* the records import_insights gets through before one raises KeyError
RECURSIVE GoodPrefix(_)
GoodPrefix(recs) ==
    IF recs = << >> \/ ~(RecordKeys \subseteq DOMAIN recs[1]) THEN 0
    ELSE 1 + GoodPrefix(Tail(recs))

\* str(uuid.uuid4()) of the n-th entry made: an id not used before
Uuid4(n) == [i \in 1..n |-> "u"]

\* the entry import_insights builds from the i-th record; made is the
\* number of entries the target holds
ImportedEntry(recs, i, made) ==
    MemoryEntry(Uuid4(made + i), recs[i].content, recs[i].metadata,
                Now(2 * i - 1), "federated", recs[i].tags, 0)

\* the domains' files and logs after the first n records are stored
RECURSIVE ImportedData(_, _, _, _)
ImportedData(files, recs, n, made) ==
    IF n = 0 THEN files
    ELSE LET x == ImportedEntry(recs, n, made)
         IN  [ImportedData(files, recs, n - 1, made)
                 EXCEPT ![classify_domain(x.content)] = SharedStoreData(@, x)]

RECURSIVE ImportedLog(_, _, _, _)
ImportedLog(logs, recs, n, made) ==
    IF n = 0 THEN logs
    ELSE LET x == ImportedEntry(recs, n, made)
         IN  [ImportedLog(logs, recs, n - 1, made)
                 EXCEPT ![classify_domain(x.content)] =
                            SharedStoreLog(@, 2 * n, x)]

ImportInsights(file) ==
    /\ config = "federation"
    /\ call' = [op |-> "import_insights", file |-> file]
    /\ IF ~file.parses
       THEN /\ ret' = [ok |-> FALSE, out |-> 0]
            /\ UNCHANGED <<dmData, dmLog, dmCreated, now>>
       ELSE LET recs == file.insights
                n == GoodPrefix(recs)
                made == Logged
            IN  /\ Logged + n <= MaxLog
                /\ dmData' = ImportedData(dmData, recs, n, made)
                /\ dmLog' = ImportedLog(dmLog, recs, n, made)
                /\ dmCreated' = dmCreated \cup
                      {classify_domain(recs[i].content) : i \in 1..n}
                /\ now' = now + 2 * n
                /\ ret' = [ok |-> n = Len(recs), out |-> n]
    /\ UNCHANGED <<config, noLog, shData, shLog, pvData, pvLog, thrVars,
                   agent_memories, bundle, chromaVars>>

----------------------------------------------------------------------------
(* IntelligentInsightFilter.  context_similarity is the fraction num/den.  *)

\* IntelligentInsightFilter(): min_quality_score 0.2, max_insights 5
min_quality_score == QualityOne \div 5
max_insights == 5

specific_terms ==
    <<<<"a", "l", "g", "o", "r", "i", "t", "h", "m">>,
      <<"p", "a", "t", "t", "e", "r", "n">>,
      <<"o", "p", "t", "i", "m", "i", "z", "a", "t", "i", "o", "n">>,
      <<"e", "r", "r", "o", "r">>,
      <<"s", "o", "l", "u", "t", "i", "o", "n">>,
      <<"a", "p", "p", "r", "o", "a", "c", "h">>>>
action_words ==
    <<<<"i", "m", "p", "l", "e", "m", "e", "n", "t">>,
      <<"u", "s", "e">>,
      <<"a", "p", "p", "l", "y">>,
      <<"c", "o", "n", "s", "i", "d", "e", "r">>,
      <<"a", "v", "o", "i", "d">>,
      <<"e", "n", "s", "u", "r", "e">>,
      <<"c", "h", "e", "c", "k">>>>
\* "BQ" stands for the backquote character
code_marks ==
    <<<<"BQ", "BQ", "BQ">>,
      <<"d", "e", "f", " ">>,
      <<"c", "l", "a", "s", "s", " ">>>>

\* how many of the words are in the lower-cased text
Present(words, text) ==
    LET lowered == Lower(text)
    IN  Cardinality({i \in 1..Len(words) : In(Lower(words[i]), lowered)})

\* the mean of the length, specificity, code and action factors
calculate_insight_quality(insight, context) ==
    LET len == Len(insight)
        a == IF len < 200 THEN len ELSE 200
        b == 1000 - (IF len - 500 > 0 THEN len - 500 ELSE 0)
        length_score == a * b * (QualityOne \div (200 * 1000))
        specificity_score ==
            (Present(specific_terms, insight) * QualityOne) \div 6
        code_score ==
            IF \E i \in 1..Len(code_marks) : In(code_marks[i], insight)
            THEN QualityOne ELSE QualityOne \div 2
        acts == Present(action_words, insight)
        action_score == IF acts < 3 THEN (acts * QualityOne) \div 3
                        ELSE QualityOne
    IN  (length_score + specificity_score + code_score + action_score) \div 4

\* the characters of a word
WordChars ==
    {"a", "b", "c", "d", "e", "f", "g", "h", "i", "j", "k", "l", "m",
     "n", "o", "p", "q", "r", "s", "t", "u", "v", "w", "x", "y", "z",
     "A", "B", "C", "D", "E", "F", "G", "H", "I", "J", "K", "L", "M",
     "N", "O", "P", "Q", "R", "S", "T", "U", "V", "W", "X", "Y", "Z",
     "0", "1", "2", "3", "4", "5", "6", "7", "8", "9", "_"}

\* the set of words re.findall finds: the maximal runs of word characters
Words(s) ==
    LET n == Len(s)
        starts == {i \in 1..n :
                      s[i] \in WordChars /\ (i = 1 \/ s[i - 1] \notin WordChars)}
        EndOf(i) ==
            LET ends == {j \in i..n : j = n \/ s[j + 1] \notin WordChars}
            IN  CHOOSE j \in ends : \A k \in ends : j <= k
    IN  {SubSeq(s, i, EndOf(i)) : i \in starts}

_calculate_context_similarity(insight, context) ==
    LET insight_words == Words(Lower(insight))
        context_words == Words(Lower(context))
    IN  IF insight_words = {} \/ context_words = {}
        THEN [num |-> 0, den |-> 1]
        ELSE [num |-> Cardinality(insight_words \cap context_words),
              den |-> Cardinality(insight_words \cup context_words)]

\* the insights after the scoring loop has written their scores
Scored(insights, context) ==
    [i \in 1..Len(insights) |->
        [insights[i] EXCEPT
            !.quality_score =
                calculate_insight_quality(insights[i].content, context),
            !.context_similarity =
                _calculate_context_similarity(insights[i].content, context)]]

\* the sort key, times 10 * QualityOne * x.context_similarity.den
FilterKey(x) ==
    LET den == x.context_similarity.den
        usage == IF x.usage_count < 10 THEN x.usage_count ELSE 10
    IN  4 * x.quality_score * den
        + 3 * QualityOne * x.context_similarity.num
        + (QualityOne \div 50) * x.success_rate * den
        + (QualityOne \div 10) * usage * den

FilterLess(x, y) ==
    FilterKey(x) * y.context_similarity.den
        < FilterKey(y) * x.context_similarity.den

\* a sort that turns the list round
FilterSortReversed(filtered) ==
    [i \in 1..Len(filtered) |-> filtered[Len(filtered) + 1 - i]]

\* filtered.sort(key=..., reverse=True)
FilterSort(filtered) ==
    SortDesc(filtered, [i \in 1..Len(filtered), j \in 1..Len(filtered) |->
                            FilterLess(filtered[i], filtered[j])])

\* a filter that ranks and cuts but drops nothing
filter_insights_all(insights, context) ==
    Take(FilterSort(Scored(insights, context)), max_insights)

filter_insights(insights, context) ==
    LET filtered == SelectSeq(Scored(insights, context),
                              LAMBDA x : x.quality_score >= min_quality_score)
    IN  Take(FilterSort(filtered), max_insights)

\* inputs of the filter
UseSort == <<"u", "s", "e", " ", "s", "o", "r", "t">>
CheckError == <<"c", "h", "e", "c", "k", " ", "e", "r", "r", "o", "r">>
DefUse == <<"d", "e", "f", " ", "u", "s", "e">>
LongText == [i \in 1..2100 |-> "x"]
QCheck == <<"c", "h", "e", "c", "k", " ", "i", "t">>
Insight(id, content, success_rate, usage_count) ==
    [EnhancedMemoryEntry(
        MemoryEntry(id, content, EmptyDict, [s |-> 0, us |-> 0], Owner,
                    << >>, 50), "general", 0, success_rate)
     EXCEPT !.usage_count = usage_count]
I1 == Insight(Id1, UseSort, 0, 0)
I2 == Insight(Id2, CheckError, 50, 0)
I3 == Insight(Id9, Note, 100, 0)
I4 == Insight(IdH, DefUse, 0, 3)
I5 == Insight(IdB, UseSort, 0, 0)
I6 == Insight(IdV, CheckError, 50, 12)
I7 == Insight(<<"e", "7">>, DefUse, 100, 0)
ILong == Insight(<<"e", "8">>, LongText, 100, 0)
FilterLists ==
    {<< >>, <<I3, I1, I2>>, <<I5, ILong, I1>>, <<I1, I2, I4, I5, I6, I7>>}
Contexts == {UseSort, QCheck, << >>}

FilterInsights(insights, context) ==
    /\ config = "filter"
    /\ call' = [op |-> "filter_insights", insights |-> insights,
                context |-> context]
    /\ ret' = [ok |-> TRUE, out |-> filter_insights(insights, context),
               args |-> Scored(insights, context)]
    /\ UNCHANGED <<config, now, noLog, shData, shLog, pvData, pvLog, dmData,
                   dmLog, dmCreated, thrVars, agent_memories, bundle,
                   chromaVars>>

----------------------------------------------------------------------------

Next ==
    \/ \E e \in Entries : NoStore(e)
    \/ \E q \in Queries, a \in Agents, lim \in Limits : NoRetrieve(q, a, lim)
    \/ \E id \in Ids, u \in UpdateMaps : NoUpdate(id, u)
    \/ \E id \in Ids : NoDelete(id)
    \/ \E e \in Entries : SharedStore(e)
    \/ \E q \in Queries, a \in Agents, lim \in Limits : SharedRetrieveCall(q, a, lim)
    \/ \E id \in Ids, u \in UpdateMaps : SharedUpdate(id, u)
    \/ \E id \in Ids : SharedDelete(id)
    \/ \E e \in Entries : PrivateStore(Owner, e)
    \/ \E q \in Queries, a \in Agents, lim \in Limits :
            PrivateRetrieveCall(Owner, q, a, lim)
    \/ \E id \in Ids, u \in UpdateMaps : PrivateUpdate(Owner, id, u)
    \/ \E id \in Ids : PrivateDelete(Owner, id)
    \/ \E src \in Agents, tgt \in Agents, ids \in IdLists :
            \E uuids \in [1..Len(ids) -> Uuids] :
                ShareKnowledge(src, tgt, ids, uuids)
    \/ \E e \in DomainEntries : StoreDomainInsight(e)
    \/ \E q \in DomainQueries, a \in Agents, lim \in DomainLimits :
            RetrieveDomainInsights(q, a, lim)
    \/ \E agent_id \in Agents : GetAgentMemory(agent_id)
    \/ \E insights \in ExportLists, organization_id \in Organizations :
            ExportInsights(insights, organization_id)
    \/ \E file \in ImportFiles : ImportInsights(file)
    \/ \E insights \in FilterLists, context \in Contexts :
            FilterInsights(insights, context)
    \/ \E t \in Agents : StoreLoad(t)
    \/ \E t \in Agents : StoreOpen(t)
    \/ \E t \in Agents : StoreDump(t)

Spec == Init /\ [][Next]_vars

----------------------------------------------------------------------------
(* Properties *)

Last(log) == log[Len(log)]

\* log2 is log1 with exactly one record appended
OneAppended(log1, log2) ==
    Len(log2) = Len(log1) + 1 /\ SubSeq(log2, 1, Len(log1)) = log1

Elems(s) == {s[i] : i \in 1..Len(s)}

\* a limit no smaller than the number of entries of a file
All(data) == Len(data)

\* C1: in a Private Store of owner o, a retrieve issued by another identity
\* returns the empty list, leaves the record map as it was and appends
\* exactly one log record, retrieve_denied / cross_agent_access_denied.
C1_DeniedRetrieve ==
    [][(/\ config = "private"
        /\ call'.op = "retrieve"
        /\ call'.agent_id # call'.owner)
       => LET o == call'.owner
          IN  /\ ret'.out = << >>
              /\ pvData' = pvData
              /\ OneAppended(pvLog[o], pvLog'[o])
              /\ Last(pvLog'[o]).operation = "retrieve_denied"
              /\ Last(pvLog'[o]).agent_id = call'.agent_id
              /\ Last(pvLog'[o]).details.reason = "cross_agent_access_denied"
              /\ \A p \in Agents \ {o} : pvLog'[p] = pvLog[p]]_vars

\* a denied retrieve whose query the owner would have had results for
C1_Witness ==
    /\ config = "private"
    /\ call.op = "retrieve"
    /\ call.agent_id # call.owner
    /\ PrivateRetrieve(pvData[call.owner], call.query, call.limit) # << >>
    /\ ret.out = << >>
    /\ Last(pvLog[call.owner]).operation = "retrieve_denied"

\* C2: in a Private Store of owner o, a store of an entry whose agent_id is
\* not o returns failure, leaves the record map as it was, appends a
\* store_denied log record, and no retrieve by the owner, then or later,
\* returns that entry.
C2_DeniedStore ==
    /\ [][(/\ config = "private"
            /\ call'.op = "store"
            /\ call'.entry.agent_id # call'.owner)
           => LET o == call'.owner
              IN  /\ ret'.ok = FALSE
                  /\ pvData' = pvData
                  /\ OneAppended(pvLog[o], pvLog'[o])
                  /\ Last(pvLog'[o]).operation = "store_denied"
                  /\ \A q \in Queries :
                        call'.entry \notin
                            Elems(PrivateRetrieve(pvData'[o], q, All(pvData'[o])))
          ]_vars
    /\ [](config = "private" =>
            \A e \in Entries, q \in Queries :
                e.agent_id # Owner =>
                    e \notin Elems(PrivateRetrieve(pvData[Owner], q,
                                                   All(pvData[Owner]))))

\* a store denied by a store that holds entries of its owner
C2_Witness ==
    /\ config = "private"
    /\ call.op = "store"
    /\ call.entry.agent_id # call.owner
    /\ ret.ok = FALSE
    /\ pvData[call.owner] # EmptyDict
    /\ Last(pvLog[call.owner]).operation = "store_denied"

\* C3 (as claimed): a Private Store of owner o never holds, and never
\* returns from retrieve, a record whose agent_id is not o.
C3_OnlyOwnRecords ==
    config = "private" =>
        \A o \in Agents :
            /\ \A i \in 1..Len(pvData[o]) : pvData[o][i][2].agent_id = o
            /\ \A q \in Queries, lim \in Limits :
                  \A e \in Elems(PrivateRetrieve(pvData[o], q, lim)) :
                      e.agent_id = o

\* C4 (as claimed): when a Private Store refuses an update or a delete
\* because the target entry's agent_id is not the owner, the call returns
\* failure, the record map is unchanged and a *_denied record is appended
\* to the access log.
C4_RefusalLogged ==
    [][(/\ config = "private"
        /\ call'.op \in {"update", "delete"}
        /\ Has(pvData[call'.owner], call'.entry_id)
        /\ ~PrivateOwns(call'.owner, Get(pvData[call'.owner], call'.entry_id)))
       => LET o == call'.owner
          IN  /\ ret'.ok = FALSE
              /\ pvData' = pvData
              /\ OneAppended(pvLog[o], pvLog'[o])
              /\ Last(pvLog'[o]).operation
                    \in {"update_denied", "delete_denied"}]_vars

\* C5: on the No-Op store every store, update and delete reports success
\* and every retrieve, after any calls, returns the empty list.
C5_NoOpEmpty ==
    config = "none" =>
        /\ call.op \in {"store", "update", "delete"} => ret.ok = TRUE
        /\ call.op = "retrieve" => ret.out = << >>

\* a retrieve on the No-Op store after a store
C5_Witness ==
    /\ config = "none"
    /\ call.op = "retrieve"
    /\ Len(noLog) = 2
    /\ noLog[1].operation = "store_attempted"
    /\ ret.out = << >>


\* the file of the store a call of the run is made on
FileIn(sh, pv, c) == IF config = "shared" THEN sh ELSE pv[c.owner]

FileOf(c) == FileIn(shData, pvData, c)

\* what a retrieve of everything by the owner returns, in the store of call c
AllFound(c, q) ==
    IF config = "shared"
    THEN SharedRetrieve(shData, q, All(shData))
    ELSE PrivateRetrieve(pvData[c.owner], q, All(pvData[c.owner]))

\* the query is a case-insensitive substring of the content or of a tag
QueryInContentOrTag(q, e) ==
    \/ In(Lower(q), Lower(e.content))
    \/ \E i \in 1..Len(e.tags) : In(Lower(q), Lower(e.tags[i]))

\* the query is a case-insensitive substring of the content, or a tag is a
\* case-insensitive substring of the query
QueryInContentOrTagInQuery(q, e) ==
    \/ In(Lower(q), Lower(e.content))
    \/ \E i \in 1..Len(e.tags) : In(Lower(e.tags[i]), Lower(q))

\* C6 (as claimed): an entry stored in a Shared Store, or by its owner in a
\* Private Store, is returned with all its fields as stored by a following
\* retrieve whose query is a substring of its content or of one of its
\* tags, the limit being no smaller than the number of matches.
C6_StoreThenRetrieve ==
    (config \in {"shared", "private"} /\ call.op = "store" /\ ret.ok) =>
        \A q \in Queries :
            QueryInContentOrTag(q, call.entry) =>
                call.entry \in Elems(AllFound(call, q))

\* C6 (amended): the same, for a query that is a substring of the content
\* or that holds one of the tags as a substring.
C6_StoreThenRetrieveAmended ==
    (config \in {"shared", "private"} /\ call.op = "store" /\ ret.ok) =>
        \A q \in Queries :
            QueryInContentOrTagInQuery(q, call.entry) =>
                call.entry \in Elems(AllFound(call, q))

\* an entry with microseconds in its timestamp, stored beside another and
\* found by a query that holds its tag but is not in its content
C6_Witness ==
    /\ config \in {"shared", "private"}
    /\ call.op = "store"
    /\ ret.ok
    /\ call.entry.timestamp.us # 0
    /\ Len(FileOf(call)) >= 2
    /\ \E q \in Queries :
          /\ ~In(Lower(q), Lower(call.entry.content))
          /\ call.entry \in Elems(AllFound(call, q))

\* C7: retrieve on the No-Op, Shared and Private stores and
\* retrieve_domain_insights return at most `limit` entries, and return the
\* empty list when nothing matches.
C7_AtMostLimit ==
    /\ call.op \in {"retrieve", "retrieve_domain_insights"} =>
          /\ ret.ok
          /\ Len(ret.out) <= call.limit
    \* every file a retrieve can find was left by Init or by an operation
    \* that wrote it, so the retrieves of all queries are looked at there
    /\ (/\ call.op \notin {"retrieve", "retrieve_domain_insights"}
        /\ ~(call.op \in {"update", "delete"} /\ ~ret.ok)) =>
        \A q \in Queries, lim \in Limits :
          /\ Len(NoRetrieveOut(q)) <= lim
          /\ shData # EmptyDict =>
                /\ Len(SharedRetrieve(shData, q, lim)) <= lim
                /\ (\A i \in 1..Len(shData) : ~SharedMatch(shData[i][2], q))
                      => SharedRetrieve(shData, q, lim) = << >>
          /\ \A o \in Agents : pvData[o] # EmptyDict =>
                /\ Len(PrivateRetrieve(pvData[o], q, lim)) <= lim
                /\ (\A i \in 1..Len(pvData[o]) :
                        ~PrivateMatch(pvData[o][i][2], q))
                      => PrivateRetrieve(pvData[o], q, lim) = << >>
          /\ dmData # NoFiles =>
                /\ Len(DomainRetrieve(dmData, q, lim)) <= lim
                /\ (\A d \in Domains : \A i \in 1..Len(dmData[d]) :
                        ~SharedMatch(dmData[d][i][2], q))
                      => DomainRetrieve(dmData, q, lim) = << >>

\* a retrieve_domain_insights cut to its limit: the query's domain and the
\* general domain together hold more matches than the limit
C7_Witness ==
    /\ config = "domain"
    /\ call.op = "retrieve_domain_insights"
    /\ call.limit > 0
    /\ Len(ret.out) = call.limit
    /\ classify_domain(call.query) # "general"
    /\ Len(SharedRetrieve(dmData[classify_domain(call.query)], call.query,
                          call.limit))
         + Len(SharedRetrieve(dmData["general"], call.query,
                              call.limit \div 2)) > call.limit

\* C8: on Shared and Private stores, update and delete of an id that is
\* not in the store return false and leave the record map as it was.
C8_UnknownId ==
    [][(/\ config \in {"shared", "private"}
        /\ call'.op \in {"update", "delete"}
        /\ ~Has(FileIn(shData, pvData, call'), call'.entry_id))
       => /\ ret'.ok = FALSE
          /\ shData' = shData
          /\ pvData' = pvData]_vars

\* a delete of an unknown id refused by a Shared Store that holds entries
C8_Witness ==
    /\ config = "shared"
    /\ call.op = "delete"
    /\ ~Has(shData, call.entry_id)
    /\ shData # EmptyDict
    /\ ret.ok = FALSE

\* the access log of the store a call of the run is made on
LogIn(no, sh, pv, c) ==
    CASE config = "none" -> no
      [] config = "shared" -> sh
      [] config = "private" -> pv[c.owner]

\* C9 (as claimed): every store, retrieve, update and delete call on a
\* No-Op, Shared or Private store appends exactly one record to that
\* store's access log and leaves the records already there as they were.
C9_EveryCallLogged ==
    [][(/\ config \in {"none", "shared", "private"}
        /\ call'.op \in {"store", "retrieve", "update", "delete"})
       => OneAppended(LogIn(noLog, shLog, pvLog, call'),
                      LogIn(noLog', shLog', pvLog', call'))]_vars

\* C10 (as claimed): in Shared and Private stores no update call changes
\* the agent_id recorded for an entry id.
C10_AgentIdKept ==
    [][(/\ config \in {"shared", "private"}
        /\ call'.op = "update")
       => LET before == FileIn(shData, pvData, call')
              after == FileIn(shData', pvData', call')
          IN  \A i \in 1..Len(before) :
                 /\ Has(after, before[i][1])
                 /\ Get(after, before[i][1]).agent_id
                      = before[i][2].agent_id]_vars

\* C11 (as claimed): when two agents concurrently store entries with
\* distinct ids in one Shared Store, once both calls have returned success
\* the file holds both entries.
C11_NoLostUpdate ==
    (config = "threads" /\ \A t \in Agents : threads[t].pc = "done") =>
        \A t \in Agents : Has(LoadJson, ThreadEntry(t).id)

\* C12: get_agent_memory returns the same store on every call with the
\* same identity and different stores for different identities, each bound
\* to the identity asked for, as long as the manager lives.
C12_SameInstance ==
    /\ [][config = "manager" =>
            \A a \in Agents :
                Has(agent_memories, a) =>
                    /\ Has(agent_memories', a)
                    /\ Get(agent_memories', a) = Get(agent_memories, a)]_vars
    /\ [](config = "manager" =>
            /\ call.op = "get_agent_memory" =>
                  /\ Has(agent_memories, call.agent_id)
                  /\ ret.out = Get(agent_memories, call.agent_id)
                  /\ ret.out.agent_id = call.agent_id
            /\ \A i, j \in 1..Len(agent_memories) :
                  /\ agent_memories[i][2].agent_id = agent_memories[i][1]
                  /\ i # j => agent_memories[i][2].obj
                                # agent_memories[j][2].obj)

\* a repeated call: the store of the identity asked for first is returned
\* again after the store of the other identity was made
C12_Witness ==
    /\ config = "manager"
    /\ Len(agent_memories) = 2
    /\ call.op = "get_agent_memory"
    /\ call.agent_id = agent_memories[1][1]
    /\ ret.out = agent_memories[1][2]

\* C13: retrieve_domain_insights returns the results of the query's domain
\* store (up to limit) followed, when that domain is not general, by up to
\* limit/2 results of the general store, cut to limit; when the query's
\* domain is not general and has no result while the general store has
\* matches, the general results are returned.
C13_PrimaryThenGeneral ==
    (config = "domain" /\ call.op = "retrieve_domain_insights") =>
        LET d == classify_domain(call.query)
            p == SharedRetrieve(dmData[d], call.query, call.limit)
            g == SharedRetrieve(dmData["general"], call.query,
                                call.limit \div 2)
            both == IF d # "general" THEN p \o g ELSE p
            n == IF Len(both) < call.limit THEN Len(both) ELSE call.limit
        IN  /\ Len(ret.out) = n
            /\ \A i \in 1..n : ret.out[i] = both[i]
            /\ (d # "general" /\ p = << >> /\ g # << >>) =>
                  /\ ret.out = g
                  /\ 2 * Len(ret.out) <= call.limit

\* a query of the algorithms domain, whose store has no match, answered
\* with the match of the general store
C13_Witness ==
    /\ config = "domain"
    /\ call.op = "retrieve_domain_insights"
    /\ classify_domain(call.query) = "algorithms"
    /\ SharedRetrieve(dmData["algorithms"], call.query, call.limit) = << >>
    /\ Len(ret.out) = 1
    /\ Has(dmData["general"], ret.out[1].id)

\* the files left by storing the three entries through the router
ScenarioFiles == DomainStored(<<EH, EB, EV>>)

\* C14 (as claimed): with the hash-table, binary-search and validate-input
\* entries stored through the router, classify_domain of "binary search
\* implementation" is algorithms and retrieve_domain_insights of it with
\* limit 5 holds the binary-search entry, before the other two.
C14_BinarySearchFirst ==
    /\ classify_domain(QBinary) = "algorithms"
    /\ (/\ config = "domain"
        /\ dmData = ScenarioFiles
        /\ call.op = "retrieve_domain_insights"
        /\ call.query = QBinary
        /\ call.limit = 5) =>
          \E i \in 1..Len(ret.out) :
              /\ ret.out[i] = EB
              /\ \A j \in 1..Len(ret.out) :
                    ret.out[j] \in {EH, EV} => i < j

\* records held by the domains' files
RECURSIVE Held(_, _)
Held(files, D) ==
    IF D = {} THEN 0
    ELSE LET d == CHOOSE d \in D : TRUE
         IN  Len(files[d]) + Held(files, D \ {d})

\* C15 (as claimed): after export_insights with organization id O and
\* import_insights of the file it wrote into a fresh pool, every exported
\* insight has an entry in the pool's domain stores with the same content,
\* domain and tags, and with federation_source O.
C15_FederationRoundTrip ==
    (/\ config = "federation"
     /\ call.op = "import_insights"
     /\ call.file = bundle
     /\ ret.ok
     /\ Held(dmData, Domains) = ret.out) =>
        \A i \in 1..Len(bundle.insights) :
            \E d \in Domains : \E k \in 1..Len(dmData[d]) :
                LET r == dmData[d][k][2]
                IN  /\ r.content = bundle.insights[i].content
                    /\ r.tags = bundle.insights[i].tags
                    /\ d = bundle.insights[i].domain
                    /\ "federation_source" \in DOMAIN r
                    /\ r.federation_source = bundle.organization_id

\* the indices of the insights at or above the threshold
Passing(insights) ==
    {i \in 1..Len(insights) : insights[i].quality_score >= quality_threshold}

\* the k-th smallest element of a set of numbers
Nth(S, k) == CHOOSE i \in S : Cardinality({j \in S : j < i}) = k - 1

\* C16: the file export_insights writes holds exactly the given insights
\* whose quality_score is at least the threshold, in the order given;
\* those below it are left out and the call does not fail.
C16_ExportAtOrAboveThreshold ==
    (config = "federation" /\ call.op = "export_insights") =>
        /\ ret.ok
        /\ bundle.written /\ bundle.parses
        /\ bundle.organization_id = call.organization_id
        /\ Len(bundle.insights) = Cardinality(Passing(call.insights))
        /\ \A k \in 1..Len(bundle.insights) :
              LET x == call.insights[Nth(Passing(call.insights), k)]
              IN  /\ bundle.insights[k].content = x.content
                  /\ bundle.insights[k].domain = x.domain
                  /\ bundle.insights[k].quality_score = x.quality_score
                  /\ bundle.insights[k].success_rate = x.success_rate
                  /\ bundle.insights[k].tags = x.tags
                  /\ bundle.insights[k].metadata = x.metadata

\* an export of three insights, the second below the threshold and the
\* first exactly at it: two are written
C16_Witness ==
    /\ config = "federation"
    /\ call.op = "export_insights"
    /\ Len(call.insights) = 3
    /\ call.insights[1].quality_score = quality_threshold
    /\ call.insights[2].quality_score < quality_threshold
    /\ Len(bundle.insights) = 2
    /\ bundle.insights[1].content = call.insights[1].content
    /\ bundle.insights[2].content = call.insights[3].content

\* a file that is not JSON, or one of whose records lacks a key
Malformed(file) ==
    \/ ~file.parses
    \/ \E i \in 1..Len(file.insights) :
          ~(RecordKeys \subseteq DOMAIN file.insights[i])

\* C17 (as claimed): import_insights of a malformed file fails with no
\* entry inserted into any domain store; of a valid file it returns the
\* number of records inserted.
C17_ImportAllOrNothing ==
    [][(config = "federation" /\ call'.op = "import_insights") =>
         IF Malformed(call'.file)
         THEN ~ret'.ok /\ dmData' = dmData
         ELSE /\ ret'.ok
              /\ ret'.out = Held(dmData', Domains) - Held(dmData, Domains)
              /\ ret'.out = Len(call'.file.insights)]_vars

\* C18: filter_insights of the list filter_insights returned, with the
\* same query, returns the same entries in the same order.
C18_FilterIdempotent ==
    (config = "filter" /\ call.op = "filter_insights") =>
        LET again == filter_insights(ret.out, call.context)
        IN  /\ Len(again) = Len(ret.out)
            /\ \A i \in 1..Len(ret.out) : again[i] = ret.out[i]

\* six insights that all pass, cut to max_insights and put in another
\* order than they came in
C18_Witness ==
    /\ config = "filter"
    /\ call.op = "filter_insights"
    /\ Len(call.insights) > max_insights
    /\ Len(ret.out) = max_insights
    /\ ret.out[1].id # call.insights[1].id
    /\ \E i \in 1..Len(ret.out) : ret.out[i].context_similarity.num > 0

\* C19 (as claimed): the quality_score and the context_similarity that
\* filter_insights computes for an insight lie in [0,1], whatever the
\* length of its content, and the context_similarity is 0 when the
\* content or the query has no word.
C19_ScoresInUnitInterval ==
    (config = "filter" /\ call.op = "filter_insights") =>
        \A i \in 1..Len(ret.args) :
            LET x == ret.args[i]
            IN  /\ 0 <= x.quality_score
                /\ x.quality_score <= QualityOne
                /\ 0 <= x.context_similarity.num
                /\ x.context_similarity.num <= x.context_similarity.den
                /\ (Words(x.content) = {} \/ Words(call.context) = {})
                      => x.context_similarity.num = 0

\* C20 (as claimed): when the query of the collection fails during a
\* retrieve of a Shared Store, the call does not raise and returns the
\* entries of the file that match the query by keyword or tag.
C20_DegradesToKeywordFallback ==
    (/\ config = "shared"
     /\ collection # "None"
     /\ call.op = "retrieve"
     /\ Last(shLog).operation = "retrieve_error") =>
        /\ ret.ok
        /\ ret.out = SharedRetrieve(shData, call.query, call.limit)

----------------------------------------------------------------------------

\* the entries of a file
StoredEntries(data) == {EntryOf(data[i][1], data[i][2]) : i \in 1..Len(data)}

\* out is the first lim, in non-increasing importance_score order, of the
\* set cands of entries
FirstByImportance(out, cands, lim) ==
    /\ Len(out) = IF lim < Cardinality(cands) THEN lim ELSE Cardinality(cands)
    /\ \A i \in 1..Len(out) : out[i] \in cands
    /\ \A i, j \in 1..Len(out) :
          /\ i # j => out[i] # out[j]
          /\ i < j => out[i].importance_score >= out[j].importance_score
    /\ \A x \in cands \ Elems(out) : \A i \in 1..Len(out) :
          out[i].importance_score >= x.importance_score

\* C21 (as claimed): with no similarity backend, a Shared Store retrieve
\* returns exactly the first `limit` entries, by non-increasing
\* importance_score, of the stored entries for which the query is a
\* case-insensitive substring of the content or of a tag.
C21_KeywordFallback ==
    (/\ config = "shared" /\ collection = "None" /\ call.op = "retrieve") =>
        FirstByImportance(ret.out,
            {x \in StoredEntries(shData) : QueryInContentOrTag(call.query, x)},
            call.limit)

\* C21 (amended): the same, for the stored entries whose content holds the
\* query or one of whose tags is held by the query, case-insensitively.
C21_KeywordFallbackAmended ==
    (/\ config = "shared" /\ collection = "None" /\ call.op = "retrieve") =>
        FirstByImportance(ret.out,
            {x \in StoredEntries(shData) :
                QueryInContentOrTagInQuery(call.query, x)},
            call.limit)

\* a fallback retrieve that returns two entries of different importance,
\* one of them found by its tag
C21_Witness ==
    /\ config = "shared" /\ collection = "None" /\ call.op = "retrieve"
    /\ Len(ret.out) = 2
    /\ ret.out[1].importance_score > ret.out[2].importance_score
    /\ \E i \in 1..2 : ~In(Lower(call.query), Lower(ret.out[i].content))

\* C22: a Shared Store retrieve that does not fail appends one `retrieve`
\* record whose cross_agent_access is true exactly when some returned entry
\* has an agent_id other than the requester's; the `retrieve` record of a
\* Private Store always has it false.
C22_CrossAgentFlag ==
    [][(/\ config \in {"shared", "private"}
        /\ call'.op = "retrieve"
        /\ Last(LogIn(noLog', shLog', pvLog', call')).operation = "retrieve")
       => LET log == LogIn(noLog, shLog, pvLog, call')
              log2 == LogIn(noLog', shLog', pvLog', call')
              flag == Last(log2).details.cross_agent_access
          IN  /\ OneAppended(log, log2)
              /\ Last(log2).agent_id = call'.agent_id
              /\ Last(log2).details.results_found = Len(ret'.out)
              /\ IF config = "shared"
                 THEN flag <=> \E i \in 1..Len(ret'.out) :
                                   ret'.out[i].agent_id # call'.agent_id
                 ELSE flag = FALSE]_vars

\* a Shared Store retrieve that returned an entry of another agent and
\* one of the requester's own
C22_Witness ==
    /\ config = "shared"
    /\ call.op = "retrieve"
    /\ Last(shLog).operation = "retrieve"
    /\ Last(shLog).details.cross_agent_access
    /\ \E i \in 1..Len(ret.out) : ret.out[i].agent_id = call.agent_id

\* the fields of a stored record other than its timestamp
UpdatableFields == {"content", "metadata", "agent_id", "tags",
                    "importance_score"}

\* file2 is file1 after update(id, u) at time t: the record of id has the
\* named fields it had before set and its timestamp refreshed, it gained no
\* field, and the ids, their order and the other records are as before
UpdatedFile(file1, file2, id, u, t) ==
    /\ Len(file2) = Len(file1)
    /\ \A i \in 1..Len(file1) :
          /\ file2[i][1] = file1[i][1]
          /\ file1[i][1] # id => file2[i] = file1[i]
          /\ file1[i][1] = id =>
                /\ DOMAIN file2[i][2] = DOMAIN file1[i][2]
                /\ \A k \in UpdatableFields :
                      file2[i][2][k] = IF Has(u, k) THEN Get(u, k)
                                       ELSE file1[i][2][k]
                /\ FromIsoFormat(file2[i][2].timestamp) = t
                /\ DateLess(FromIsoFormat(file1[i][2].timestamp), t)

\* C23: a successful update on a Shared or Private store sets exactly the
\* named fields the record has, refreshes its timestamp, leaves the other
\* records and the set of ids as they were, and a following retrieve that
\* finds the entry returns it with the content the update left.
C23_UpdateFrame ==
    /\ [][(/\ config \in {"shared", "private"}
           /\ call'.op = "update"
           /\ ret'.ok)
          => UpdatedFile(FileIn(shData, pvData, call'),
                         FileIn(shData', pvData', call'),
                         call'.entry_id, call'.updates,
                         [s |-> now + 1, us |-> 1])]_vars
    /\ [](((/\ config \in {"shared", "private"}
            /\ call.op = "update"
            /\ ret.ok)
           => LET content == Get(FileOf(call), call.entry_id).content
              IN  /\ Has(call.updates, "content")
                        => content = Get(call.updates, "content")
                  /\ \A q \in Queries \cup {content} :
                        /\ \A i \in 1..Len(AllFound(call, q)) :
                              AllFound(call, q)[i].id = call.entry_id
                                  => AllFound(call, q)[i].content = content
                        /\ In(Lower(q), Lower(content)) =>
                              \E i \in 1..Len(AllFound(call, q)) :
                                  AllFound(call, q)[i].id = call.entry_id))

\* an update that named a key the record has not, of a record stored
\* beside another
C23_Witness ==
    /\ config \in {"shared", "private"}
    /\ call.op = "update"
    /\ ret.ok
    /\ Len(FileOf(call)) >= 2
    /\ \E i \in 1..Len(call.updates) : call.updates[i][1] \notin UpdatableFields

\* file2 is file1 without the record of id, the other records as before
DeletedFrom(file1, file2, id) ==
    /\ Has(file1, id)
    /\ ~Has(file2, id)
    /\ Len(file2) = Len(file1) - 1
    /\ \A i \in 1..Len(file1) :
          file1[i][1] # id => \E j \in 1..Len(file2) : file2[j] = file1[i]

\* id is in none of the files before and in one of them after
Inserted(sh1, pv1, sh2, pv2, id) ==
    \/ ~Has(sh1, id) /\ Has(sh2, id)
    \/ \E o \in Agents : ~Has(pv1[o], id) /\ Has(pv2[o], id)

\* C24: a successful delete on a Shared or Private store removes the record
\* of the id and leaves the others as they were; an id that is not in a
\* store comes into it only by a store call of an entry with that id; no
\* retrieve returns an entry whose id is not in the store; and a delete of
\* an id that is not in the store returns false.
C24_DeletedStaysDeleted ==
    /\ [][(/\ config \in {"shared", "private"}
           /\ call'.op = "delete")
          => IF ret'.ok
             THEN DeletedFrom(FileIn(shData, pvData, call'),
                              FileIn(shData', pvData', call'),
                              call'.entry_id)
             ELSE shData' = shData /\ pvData' = pvData]_vars
    /\ [][(/\ config \in {"shared", "private"}
           /\ call'.op = "delete"
           /\ ~Has(FileIn(shData, pvData, call'), call'.entry_id))
          => ~ret'.ok]_vars
    /\ [][(/\ config \in {"shared", "private"}
           /\ (shData' # shData \/ pvData' # pvData))
          => (\A id \in Ids \cup {Id2} :
                Inserted(shData, pvData, shData', pvData', id)
                    => (call'.op = "store" /\ call'.entry.id = id))]_vars
    /\ []((config \in {"shared", "private"} /\ call.op = "retrieve") =>
            \A i \in 1..Len(ret.out) : Has(FileOf(call), ret.out[i].id))

\* a successful delete of one of two records; the record left is found by
\* the query 'sort'
C24_Witness ==
    /\ config \in {"shared", "private"}
    /\ call.op = "delete"
    /\ ret.ok
    /\ Len(FileOf(call)) = 1
    /\ AllFound(call, QSort) # << >>

\* the tag share_knowledge adds
SharedKnowledgeTag ==
    <<"s", "h", "a", "r", "e", "d", "_", "k", "n", "o", "w", "l", "e", "d",
      "g", "e">>

\* record c, stored under id2, is the shared copy of the record r that
\* source src holds under id, made for target tgt
SharedCopy(id2, c, id, r, src, tgt) ==
    /\ id2 # id
    /\ c.agent_id = tgt
    /\ Len(c.content) > Len(r.content)
    /\ SubSeq(c.content, Len(c.content) - Len(r.content) + 1, Len(c.content))
          = r.content
    /\ In(AgentText(src),
          SubSeq(c.content, 1, Len(c.content) - Len(r.content)))
    /\ c.tags = Append(r.tags, SharedKnowledgeTag)
    /\ 10 * c.importance_score = 8 * r.importance_score

\* C25: share_knowledge adds to the target Private Store one new entry for
\* each requested id the source holds, with a new id, the target's owner as
\* agent_id, the content prefixed with the source owner's provenance, the
\* tags extended with shared_knowledge and 0.8 times the importance; ids
\* the source does not hold are skipped, the source's records are unchanged,
\* and the call returns true exactly when an entry was copied.
C25_ShareKnowledge ==
    [][(config = "private" /\ call'.op = "share_knowledge")
       => LET src == call'.owner
              tgt == call'.target
              held == SelectSeq(call'.entry_ids,
                                LAMBDA id : Has(pvData[src], id))
              old == Len(pvData[tgt])
          IN  /\ pvData'[src] = pvData[src]
              /\ \A o \in Agents \ {tgt} : pvData'[o] = pvData[o]
              /\ Len(pvData'[tgt]) = old + Len(held)
              /\ SubSeq(pvData'[tgt], 1, old) = pvData[tgt]
              /\ \A k \in 1..Len(held) :
                    /\ SharedCopy(pvData'[tgt][old + k][1],
                                  pvData'[tgt][old + k][2],
                                  held[k], Get(pvData[src], held[k]),
                                  src, tgt)
                    /\ ~Has(pvData[tgt], pvData'[tgt][old + k][1])
              /\ ret'.ok <=> Len(held) > 0]_vars

\* a share_knowledge that copied one requested id and skipped another
C25_Witness ==
    /\ config = "private"
    /\ call.op = "share_knowledge"
    /\ ret.ok
    /\ \E i \in 1..Len(call.entry_ids) :
          ~Has(pvData[call.owner], call.entry_ids[i])
    /\ \E i \in 1..Len(pvData[call.target]) :
          pvData[call.target][i][2].importance_score = 40

\* 0.4 * quality + 0.3 * context_similarity + 0.2 * success_rate
\* + 0.1 * min(1, usage_count / 10) of x, times 10 * QualityOne, as a
\* fraction num / den
RankNum(x) ==
    (4 * x.quality_score) * x.context_similarity.den
    + (3 * QualityOne) * x.context_similarity.num
    + (QualityOne \div 50) * x.success_rate * x.context_similarity.den
    + (QualityOne \div 10) * x.context_similarity.den
        * (IF x.usage_count > 10 THEN 10 ELSE x.usage_count)

RankDen(x) == x.context_similarity.den

\* the rank of x is at least the rank of y
RankAtLeast(x, y) == RankNum(x) * RankDen(y) >= RankNum(y) * RankDen(x)

Place(d) == CHOOSE i \in 1..Len(DomainOrder) : DomainOrder[i] = d

\* C27: classify_domain returns general exactly when no keyword of any
\* domain occurs in the lower-cased text; otherwise the domain it returns
\* has a nonzero score that no domain exceeds and that no domain declared
\* before it reaches.  The result is then a function of the text alone.
C27_ClassifyDomain ==
    (config = "domain" /\ call.op = "store_domain_insight") =>
        LET text == call.entry.content
            result == call.domain
        IN  /\ result = "general" <=>
                  \A i \in 1..Len(DomainOrder) :
                      \A k \in 1..Len(domain_patterns(DomainOrder[i])) :
                          ~In(domain_patterns(DomainOrder[i])[k], Lower(text))
            /\ result # "general" =>
                  /\ result \in Elems(DomainOrder)
                  /\ DomainScore(result, text) > 0
                  /\ \A i \in 1..Len(DomainOrder) :
                        /\ DomainScore(DomainOrder[i], text)
                              <= DomainScore(result, text)
                        /\ i < Place(result) =>
                              DomainScore(DomainOrder[i], text)
                                  < DomainScore(result, text)

\* a text classified into a domain declared after another that scores too
C27_Witness ==
    /\ config = "domain"
    /\ call.op = "store_domain_insight"
    /\ call.domain = "data_structures"
    /\ DomainScore("algorithms", call.entry.content) > 0

\* C28: over the same records, all owned by A, and for the same query and
\* limit, a Private Store retrieve issued by A returns the entries the
\* Shared Store's keyword fallback returns, in the same order.
C28_PrivateAsSharedFallback ==
    (/\ config = "private"
     /\ call.op = "retrieve"
     /\ call.agent_id = call.owner
     /\ \A i \in 1..Len(pvData[call.owner]) :
           pvData[call.owner][i][2].agent_id = call.owner)
    => ret.out = SharedRetrieve(pvData[call.owner], call.query, call.limit)

C30_StoreTrueIffStored ==
    [][(config = "shared" /\ call'.op = "store")
       => /\ ret'.ok <=>
                (/\ Has(shData', call'.entry.id)
                 /\ Get(shData', call'.entry.id) = EntryRecord(call'.entry))
          /\ ~ret'.ok => shData' = shData]_vars

====
